---- MODULE Spec2Model ----
(***************************************************************************)
(* Model of the task-selection core of the Verifi reasoning pipeline:      *)
(* src/src/level2/graph_traversal.py (GraphTraversalEngine) over the       *)
(* ontology of src/src/level2/task_graph.py, configured by GraphConfig     *)
(* (src/src/config.py) and fed a ClassificationResult                      *)
(* (src/src/models/classification.py).                                     *)
(*                                                                         *)
(* Conventions.                                                            *)
(*  - Task ids are integers; the integer order stands for the string order *)
(*    Python's sorted() uses on the ids.                                   *)
(*  - Weights are integers: classification weights and the threshold lie   *)
(*    on one grid of floats, a risk_weight r stands for the float r / 10.  *)
(*  - A Python set has no fixed iteration order.  Every place where the    *)
(*    code iterates over a set takes the order as an argument, and the     *)
(*    actions draw it from IterationOrders: all permutations of a set of   *)
(*    at most MaxPermuted elements, the two extreme orders of a larger     *)
(*    one.                                                                 *)
(*  - A dependency list is kept in ascending order; the code never depends *)
(*    on the order inside one list, only on membership, on the number of   *)
(*    entries and on repeated entries.                                     *)
(*                                                                         *)
(* Specifications.                                                         *)
(*  - Spec: get_required_tasks and explain_selection on one engine.        *)
(*  - SpecCoverage: calculate_coverage on lists of task ids.               *)
(*  - SpecPipeline: VerificationPipeline.process_claim                    *)
(*    (src/src/pipeline.py) from the classification on, with the plan's    *)
(*    coverage.                                                            *)
(*  - SpecShipped: process_claim over VERIFICATION_TASK_GRAPH as shipped,  *)
(*    under DEFAULT_GRAPH_CONFIG.                                          *)
(*  - SpecCapped: get_required_tasks over VERIFICATION_TASK_GRAPH with a   *)
(*    cap of 2 and a negative cap.                                         *)
(*  - SpecThreads: several threads calling one engine, their steps         *)
(*    interleaved.                                                         *)
(*  - SpecStore: the task store of the API (src/api/services/database.py,  *)
(*    matching.py) behind the routes of src/api/routes, one request per    *)
(*    step.                                                                *)
(*  - SpecSteps: one get_required_tasks call run pass by pass of its two   *)
(*    while loops, under weak fairness of the caller.                      *)
(***************************************************************************)
EXTENDS Integers, Sequences, FiniteSets, TLC

(* ------------------------------ bounds --------------------------------- *)

\* number of nodes of a generated ontology
NumNodes == 3
\* total number of dependency entries of a generated ontology
MaxEdges == 2
\* classification weights range over 0..MaxWeight
MaxWeight == 2
\* largest max_tasks a configuration carries
MaxTasksCap == 3
\* longest list handed to calculate_coverage
MaxListLen == 2
\* number of threads that call the one engine at the same time
NumThreads == 2
\* largest set whose iteration orders are all tried; a larger set is
\* iterated in ascending and in descending order only
MaxPermuted == 4

(* ------------------------------ helpers -------------------------------- *)

Range(s) == {s[i] : i \in 1..Len(s)}

Min(a, b) == IF a < b THEN a ELSE b

Max(a, b) == IF a > b THEN a ELSE b

\* all orders in which the elements of the set S can be iterated
Perms(S) ==
  {f \in [1..Cardinality(S) -> S] : \A i, j \in 1..Cardinality(S) : f[i] = f[j] => i = j}

RECURSIVE Ascending(_)
\* the elements of the set S of integers in ascending order
Ascending(S) ==
  IF S = {} THEN <<>>
  ELSE LET least == CHOOSE x \in S : \A y \in S : x <= y
       IN <<least>> \o Ascending(S \ {least})

\* the sequence s back to front
Reverse(s) == [i \in 1..Len(s) |-> s[Len(s) + 1 - i]]

\* the orders in which the model iterates over the set S
IterationOrders(S) ==
  IF Cardinality(S) <= MaxPermuted THEN Perms(S)
  ELSE {Ascending(S), Reverse(Ascending(S))}

Dims == {"correctness", "security"}

Ids == 1..NumNodes

\* an id that no ontology of the model defines
UnknownId == NumNodes + 1

\* the weight 1.0, in tenths, of an id outside the ontology
UnknownWeight == 10

AllIds == Ids \cup {UnknownId}

VARIABLES
  graph,            \* VERIFICATION_TASK_GRAPH: id -> TaskGraphNode
  config,           \* GraphTraversalEngine.config
  classification,   \* ClassificationResult.dimensions of the claim at hand
  activated_tasks,  \* the seed set of the latest call (call-local)
  all_required,     \* the closure of the latest call (call-local)
  previous_return,  \* what the get_required_tasks call before the latest returned
  last_return,      \* what the latest get_required_tasks call returned
  explanations,     \* what the latest explain_selection call returned
  pc,               \* "idle", or the entry point of the call under way
  coverage_executed,   \* first argument of the latest calculate_coverage call
  coverage_required,   \* second argument of the latest calculate_coverage call
  coverage,         \* what the latest calculate_coverage call returned
  plan,             \* what the latest VerificationPipeline.process_claim call returned
  thread_calls,     \* per thread: the call it makes on the shared engine
  thread_pc,        \* per thread: how far its call has come
  frames,           \* per call frame: the call-local seed set and closure
  thread_result,    \* per thread: what its call returned
  call_frame,       \* the locals of a get_required_tasks call run loop by loop
  db,               \* the MockDatabase instance of the API (database.py, db)
  response          \* what the latest API request was answered with

\* the arguments and the result of calculate_coverage
scoreVars == <<coverage_executed, coverage_required, coverage>>

vars == <<graph, config, classification, activated_tasks, all_required,
          previous_return, last_return, explanations, pc, scoreVars, plan,
          thread_calls, thread_pc, frames, thread_result, call_frame, db,
          response>>

\* the threads and their call frames
threadVars == <<thread_calls, thread_pc, frames, thread_result>>

\* the task store of the API and the answer to its latest request
storeVars == <<db, response>>

(* --------------------------- the ontology ------------------------------ *)

\* src/src/level2/task_graph.py, TaskGraphNode: the fields the engine reads
TaskGraphNode(dimensions, dependencies, mandatory, risk_weight) ==
  [dimensions |-> dimensions, dependencies |-> dependencies,
   mandatory |-> mandatory, risk_weight |-> risk_weight]

\* An excerpt of the shipped VERIFICATION_TASK_GRAPH, ids in string order:
\* 1 = baseline_correctness_check, 2 = injection_vulnerability_scan,
\* 3 = input_validation_test.
ShippedExcerpt ==
  (1 :> TaskGraphNode({"correctness"}, <<>>, TRUE, 20)) @@
  (2 :> TaskGraphNode({"security"}, <<3>>, FALSE, 25)) @@
  (3 :> TaskGraphNode({"correctness", "security"}, <<1>>, FALSE, 15))

\* Two mandatory nodes, one of them without dimensions and with a dependency
\* id that names no node; a third node depending on both.
TwoMandatory ==
  (1 :> TaskGraphNode({"security"}, <<>>, TRUE, 10)) @@
  (2 :> TaskGraphNode({}, <<UnknownId>>, TRUE, 10)) @@
  (3 :> TaskGraphNode({"correctness", "security"}, <<1, 2>>, FALSE, 20))

\* No mandatory node; node 1 depends on a node of higher risk weight and on
\* an id that names no node.
NoMandatory ==
  (1 :> TaskGraphNode({"correctness"}, <<2, UnknownId>>, FALSE, 10)) @@
  (2 :> TaskGraphNode({"security"}, <<>>, FALSE, 20)) @@
  (3 :> TaskGraphNode({"correctness", "security"}, <<2>>, FALSE, 20))

\* The mandatory node depends on a node that is not mandatory.
MandatoryDependent ==
  (1 :> TaskGraphNode({"correctness"}, <<2>>, TRUE, 20)) @@
  (2 :> TaskGraphNode({"correctness"}, <<>>, FALSE, 10)) @@
  (3 :> TaskGraphNode({"security"}, <<2>>, FALSE, 15))

\* VERIFICATION_TASK_GRAPH (task_graph.py lines 73-367), ids numbered in the
\* string order of their names:
\*   1 api_contract_test, 2 api_documentation_completeness,
\*   3 auth_boundary_test, 4 authorization_test,
\*   5 backward_compatibility_test, 6 baseline_correctness_check,
\*   7 build_reproducibility_test, 8 cold_start_test,
\*   9 concurrent_user_test, 10 data_exposure_test, 11 data_volume_test,
\*   12 determinism_test, 13 documentation_accuracy_check,
\*   14 encryption_verification, 15 environment_parity_test,
\*   16 error_handling_test, 17 example_code_verification,
\*   18 failure_recovery_test, 19 graceful_degradation_test,
\*   20 horizontal_scaling_test, 21 idempotency_test,
\*   22 injection_vulnerability_scan, 23 input_validation_test,
\*   24 integration_test, 25 latency_profile, 26 output_format_validation,
\*   27 rate_limiting_test, 28 resource_utilization_profile,
\*   29 sustained_load_test, 30 throughput_benchmark,
\*   31 timeout_handling_test
VERIFICATION_TASK_GRAPH ==
  (1 :> TaskGraphNode({"compatibility", "correctness"}, <<6>>, FALSE, 15)) @@
  (2 :> TaskGraphNode({"documentation"}, <<>>, FALSE, 10)) @@
  (3 :> TaskGraphNode({"security"}, <<6>>, FALSE, 20)) @@
  (4 :> TaskGraphNode({"security"}, <<3>>, FALSE, 20)) @@
  (5 :> TaskGraphNode({"compatibility"}, <<1>>, FALSE, 18)) @@
  (6 :> TaskGraphNode({"correctness"}, <<>>, TRUE, 20)) @@
  (7 :> TaskGraphNode({"reproducibility"}, <<>>, FALSE, 12)) @@
  (8 :> TaskGraphNode({"performance"}, <<6>>, FALSE, 10)) @@
  (9 :> TaskGraphNode({"scalability", "performance"}, <<30>>, FALSE, 15)) @@
  (10 :> TaskGraphNode({"security"}, <<6>>, FALSE, 20)) @@
  (11 :> TaskGraphNode({"scalability", "performance"}, <<6>>, FALSE, 13)) @@
  (12 :> TaskGraphNode({"reproducibility", "correctness"}, <<6>>, FALSE, 15)) @@
  (13 :> TaskGraphNode({"documentation"}, <<6>>, FALSE, 10)) @@
  (14 :> TaskGraphNode({"security"}, <<6>>, FALSE, 20)) @@
  (15 :> TaskGraphNode({"reproducibility"}, <<6>>, FALSE, 13)) @@
  (16 :> TaskGraphNode({"correctness", "reliability"}, <<6>>, FALSE, 15)) @@
  (17 :> TaskGraphNode({"documentation", "correctness"}, <<13>>, FALSE, 12)) @@
  (18 :> TaskGraphNode({"reliability"}, <<16>>, FALSE, 18)) @@
  (19 :> TaskGraphNode({"reliability", "performance"}, <<29>>, FALSE, 15)) @@
  (20 :> TaskGraphNode({"scalability", "performance"}, <<29>>, FALSE, 15)) @@
  (21 :> TaskGraphNode({"reliability", "correctness"}, <<6>>, FALSE, 15)) @@
  (22 :> TaskGraphNode({"security"}, <<23>>, FALSE, 25)) @@
  (23 :> TaskGraphNode({"correctness", "security"}, <<6>>, FALSE, 15)) @@
  (24 :> TaskGraphNode({"compatibility"}, <<6>>, FALSE, 15)) @@
  (25 :> TaskGraphNode({"performance"}, <<6>>, FALSE, 15)) @@
  (26 :> TaskGraphNode({"correctness", "compatibility"}, <<6>>, FALSE, 12)) @@
  (27 :> TaskGraphNode({"security", "performance"}, <<3>>, FALSE, 15)) @@
  (28 :> TaskGraphNode({"performance", "scalability"}, <<30>>, FALSE, 13)) @@
  (29 :> TaskGraphNode({"performance", "reliability"}, <<25, 30>>, FALSE, 18)) @@
  (30 :> TaskGraphNode({"performance"}, <<6>>, FALSE, 15)) @@
  (31 :> TaskGraphNode({"reliability"}, <<6>>, FALSE, 13))

\* the dimension names of the shipped ontology
ShippedDims ==
  {"performance", "correctness", "security", "reproducibility", "compatibility",
   "documentation", "reliability", "scalability"}

\* the ids of the two shipped nodes without dependencies that sort first
api_documentation_completeness == 2

baseline_correctness_check == 6

FixtureGraphs == {ShippedExcerpt, TwoMandatory, NoMandatory, MandatoryDependent}

\* risk_weight is an unvalidated float: two nodes that weigh nothing
ZeroWeight ==
  (1 :> TaskGraphNode({"correctness"}, <<>>, TRUE, 0)) @@
  (2 :> TaskGraphNode({"security"}, <<1>>, FALSE, 0)) @@
  (3 :> TaskGraphNode({"security"}, <<1>>, FALSE, 15))

\* a dependency entry: node e[1] lists e[2] in its dependencies
Edges == Ids \X AllIds

\* every way to write at most MaxEdges dependency entries
EdgeLists == UNION {[1..k -> Edges] : k \in 0..MaxEdges}

RECURSIVE DepList(_, _, _)
\* the dependencies of node i, ascending from id t on, repeated entries kept
DepList(es, i, t) ==
  IF t > UnknownId THEN <<>>
  ELSE [k \in 1..Cardinality({j \in 1..Len(es) : es[j] = <<i, t>>}) |-> t]
       \o DepList(es, i, t + 1)

\* node attributes of the generated ontologies: node 1 is activated by
\* "security", node 2 is mandatory, the others are reached as dependencies
\* only and alternate between two risk weights
Profile(i) ==
  IF i = 1 THEN [dimensions |-> {"security"}, mandatory |-> FALSE, risk_weight |-> 15]
  ELSE IF i = 2
       THEN [dimensions |-> {"correctness"}, mandatory |-> TRUE, risk_weight |-> 20]
       ELSE [dimensions |-> {"correctness"}, mandatory |-> FALSE,
             risk_weight |-> IF i % 2 = 1 THEN 25 ELSE 15]

\* the ontology with the dependency entries es
MakeGraph(es) ==
  [i \in Ids |-> TaskGraphNode(Profile(i).dimensions, DepList(es, i, 1),
                               Profile(i).mandatory, Profile(i).risk_weight)]

\* every ontology over NumNodes nodes with at most MaxEdges dependency
\* entries (self-dependencies, cycles, repeated and unknown entries included)
GeneratedGraphs == {MakeGraph(es) : es \in EdgeLists}

(* ------------------- configuration and classification ------------------ *)

\* src/src/config.py, GraphConfig
GraphConfig(dimension_threshold, include_mandatory, max_tasks) ==
  [dimension_threshold |-> dimension_threshold,
   include_mandatory |-> include_mandatory, max_tasks |-> max_tasks]

\* dimension_threshold is an unvalidated float, max_tasks an unvalidated
\* int: a threshold of 0.0 and a negative max_tasks included
Configs ==
  {GraphConfig(t, b, m) : t \in 0..MaxWeight, b \in BOOLEAN, m \in -1..MaxTasksCap}

\* ClassificationResult.dimensions: any dimensions, known or not, each with
\* a weight of the validated range
Classifications == UNION {[D -> 0..MaxWeight] : D \in SUBSET Dims}

\* GraphConfig.dimension_threshold = 0.2, in tenths
DefaultThreshold == 2

\* GraphConfig.max_tasks = 20
DefaultMaxTasks == 20

\* DEFAULT_GRAPH_CONFIG
DEFAULT_GRAPH_CONFIG == GraphConfig(DefaultThreshold, TRUE, DefaultMaxTasks)

\* the configurations the generated ontologies are run under
GeneratedConfigs == {GraphConfig(1, TRUE, m) : m \in -1..MaxTasksCap}

\* the classifications the generated ontologies are run under
GeneratedClassifications ==
  {<<>>, [d \in Dims |-> IF d = "security" THEN 1 ELSE 0]}

Inputs ==
  (FixtureGraphs \X Configs \X Classifications) \cup
  (GeneratedGraphs \X GeneratedConfigs \X GeneratedClassifications)

(* ----------------------- ClassificationResult -------------------------- *)

\* get_active_dimensions with the threshold ignored: every listed dimension
get_active_dimensions_all(dimensions, threshold) == DOMAIN dimensions

\* get_active_dimensions with the boundary excluded (> for >=)
get_active_dimensions_strict(dimensions, threshold) ==
  {dim \in DOMAIN dimensions : dimensions[dim] > threshold}

\* ClassificationResult.get_active_dimensions
get_active_dimensions(dimensions, threshold) ==
  {dim \in DOMAIN dimensions : dimensions[dim] >= threshold}

(* ----------------------------- task_graph ------------------------------ *)

\* get_mandatory_tasks (as ids)
get_mandatory_tasks == {id \in DOMAIN graph : graph[id].mandatory}

(* ------------------------ GraphTraversalEngine ------------------------- *)

\* the lookups done with setdefault: an id without a node gets the default
\* node of line 197 stored under it
GraphAfterLookups_setdefault(task_ids) ==
  [id \in DOMAIN graph \cup task_ids |->
     IF id \in DOMAIN graph THEN graph[id]
     ELSE [dimensions |-> {}, dependencies |-> <<>>, mandatory |-> FALSE,
           risk_weight |-> UnknownWeight]]

\* self._graph after the lookups self._graph.get(task_id) of the ids (lines
\* 124, 145, 163, 186, 197, 219, 237, 267): dict.get stores nothing
GraphAfterLookups(task_ids) == graph

\* a node activated as soon as any dimension at all is active
_should_activate_any_active(node, active_dimensions) == active_dimensions # {}

\* _should_activate: ANY of the node's dimensions is active
_should_activate(node, active_dimensions) ==
  \E dimension \in node.dimensions : dimension \in active_dimensions

\* the seed set without step 1 (no mandatory tasks)
SeedSet_without_mandatory(dimensions) ==
  {task_id \in DOMAIN graph :
     _should_activate(graph[task_id],
                      get_active_dimensions(dimensions, config.dimension_threshold))}

\* get_required_tasks, steps 1 and 2: the seed set
SeedSet(dimensions) ==
  get_mandatory_tasks \cup
  {task_id \in DOMAIN graph :
     _should_activate(graph[task_id],
                      get_active_dimensions(dimensions, config.dimension_threshold))}

\* _add_dependencies, line 129: is dep_id new to the closure
IsNewDependency(dep_id, required) == dep_id \notin required

RECURSIVE ScanDependencies_not_queued(_, _, _)
\* the for loop without queue.append: direct dependencies only
ScanDependencies_not_queued(deps, required, queue) ==
  IF deps = <<>> THEN [all_required |-> required, queue |-> queue]
  ELSE ScanDependencies_not_queued(Tail(deps), required \cup {Head(deps)}, queue)

RECURSIVE ScanDependencies(_, _, _)
\* _add_dependencies, the for loop over node.dependencies
ScanDependencies(deps, required, queue) ==
  IF deps = <<>> THEN [all_required |-> required, queue |-> queue]
  ELSE IF IsNewDependency(Head(deps), required)
       THEN ScanDependencies(Tail(deps), required \cup {Head(deps)},
                             Append(queue, Head(deps)))
       ELSE ScanDependencies(Tail(deps), required, queue)

RECURSIVE BreadthFirst(_, _)
\* _add_dependencies, the while loop over the queue
BreadthFirst(required, queue) ==
  IF queue = <<>> THEN required
  ELSE IF Head(queue) \notin DOMAIN graph
       THEN BreadthFirst(required, Tail(queue))
       ELSE LET r == ScanDependencies(graph[Head(queue)].dependencies,
                                      required, Tail(queue))
            IN BreadthFirst(r.all_required, r.queue)

\* _add_dependencies; `order` is the iteration order of activated
_add_dependencies(activated, order) == BreadthFirst(activated, order)

\* the in-degree map left at its initial zeros
InDegree_zero(task_ids) == [task_id \in task_ids |-> 0]

\* _topological_sort, lines 142-149: the in-degree map of the subgraph; a
\* repeated dependency entry is counted once per entry
InDegree(task_ids) ==
  [task_id \in task_ids |->
     IF task_id \in DOMAIN graph
     THEN Len(SelectSeq(graph[task_id].dependencies, LAMBDA dep_id : dep_id \in task_ids))
     ELSE 0]

RECURSIVE InsertSorted_descending(_, _)
\* the list kept in descending order, as sorted(queue, reverse=True) would
InsertSorted_descending(x, s) ==
  IF s = <<>> THEN <<x>>
  ELSE IF x > Head(s) THEN <<x>> \o s
       ELSE <<Head(s)>> \o InsertSorted_descending(x, Tail(s))

RECURSIVE InsertSorted(_, _)
InsertSorted(x, s) ==
  IF s = <<>> THEN <<x>>
  ELSE IF x < Head(s) THEN <<x>> \o s
       ELSE <<Head(s)>> \o InsertSorted(x, Tail(s))

RECURSIVE Sorted(_)
\* Python's sorted() on a list of ids
Sorted(s) == IF s = <<>> THEN <<>> ELSE InsertSorted(Head(s), Sorted(Tail(s)))

\* the queue popped in arrival order, without the sort
SortQueue_unsorted(queue) == queue

\* _topological_sort, line 157: queue = deque(sorted(queue))
SortQueue(queue) == Sorted(queue)

RECURSIVE ReduceDependents(_, _, _, _)
\* _topological_sort, lines 162-167: the for loop over task_ids, in the
\* iteration order `others`, after task_id was placed
ReduceDependents(others, task_id, in_degree, queue) ==
  IF others = <<>> THEN [in_degree |-> in_degree, queue |-> queue]
  ELSE LET other_id == Head(others)
       IN IF other_id \in DOMAIN graph /\ task_id \in Range(graph[other_id].dependencies)
          THEN LET d == in_degree[other_id] - 1
               IN ReduceDependents(Tail(others), task_id,
                                   [in_degree EXCEPT ![other_id] = d],
                                   IF d = 0 THEN Append(queue, other_id) ELSE queue)
          ELSE ReduceDependents(Tail(others), task_id, in_degree, queue)

RECURSIVE KahnLoop_pop_right(_, _, _, _)
\* the while loop taking the largest ready id (queue.pop() for popleft())
KahnLoop_pop_right(queue, in_degree, sorted_tasks, others) ==
  IF queue = <<>> THEN sorted_tasks
  ELSE LET q == Reverse(SortQueue(queue))
           r == ReduceDependents(others, Head(q), in_degree, Tail(q))
       IN KahnLoop_pop_right(r.queue, r.in_degree, Append(sorted_tasks, Head(q)), others)

RECURSIVE KahnLoop(_, _, _, _)
\* _topological_sort, lines 155-167: the while loop
KahnLoop(queue, in_degree, sorted_tasks, others) ==
  IF queue = <<>> THEN sorted_tasks
  ELSE LET q == SortQueue(queue)
           r == ReduceDependents(others, Head(q), in_degree, Tail(q))
       IN KahnLoop(r.queue, r.in_degree, Append(sorted_tasks, Head(q)), others)

\* a returned list
Returned(value) == [status |-> "list", value |-> value, remaining |-> {}]

\* ValueError("Cycle detected in task graph involving: {remaining}")
Raised(remaining) == [status |-> "error", value |-> <<>>, remaining |-> remaining]

\* no call made yet
NoReturn == [status |-> "none", value |-> <<>>, remaining |-> {}]

\* the cycle check left out: whatever was placed is returned
CycleCheck_off(sorted_tasks, task_ids) == Returned(sorted_tasks)

\* _topological_sort, lines 169-174: the cycle check
CycleCheck(sorted_tasks, task_ids) ==
  IF Len(sorted_tasks) # Cardinality(task_ids)
  THEN Raised(task_ids \ Range(sorted_tasks))
  ELSE Returned(sorted_tasks)

\* _topological_sort; `order` is the iteration order of task_ids (and so of
\* the in_degree dict built from it)
_topological_sort(task_ids, order) ==
  LET in_degree == InDegree(task_ids)
      queue == SelectSeq(order, LAMBDA task_id : in_degree[task_id] = 0)
  IN CycleCheck(KahnLoop(queue, in_degree, <<>>, order), task_ids)

\* priority_key ranking the lower risk weight first
priority_key_ascending(task_id) ==
  IF task_id \notin DOMAIN graph THEN <<1, 0, 0>>
  ELSE <<IF graph[task_id].mandatory THEN 0 ELSE 1,
         graph[task_id].risk_weight,
         Len(graph[task_id].dependencies)>>

\* _prioritize_tasks, priority_key
priority_key(task_id) ==
  IF task_id \notin DOMAIN graph THEN <<1, 0, 0>>
  ELSE <<IF graph[task_id].mandatory THEN 0 ELSE 1,
         0 - graph[task_id].risk_weight,
         Len(graph[task_id].dependencies)>>

\* Python's tuple order on two keys
KeyLess(a, b) ==
  \/ a[1] < b[1]
  \/ a[1] = b[1] /\ a[2] < b[2]
  \/ a[1] = b[1] /\ a[2] = b[2] /\ a[3] < b[3]

RECURSIVE InsertByKey(_, _)
\* x goes after every element whose key is not greater (a stable sort)
InsertByKey(x, s) ==
  IF s = <<>> THEN <<x>>
  ELSE IF KeyLess(priority_key(x), priority_key(Head(s))) THEN <<x>> \o s
       ELSE <<Head(s)>> \o InsertByKey(x, Tail(s))

RECURSIVE SortByKey(_)
\* list.sort(key=priority_key): stable
SortByKey(s) ==
  IF s = <<>> THEN <<>>
  ELSE InsertByKey(s[Len(s)], SortByKey(SubSeq(s, 1, Len(s) - 1)))

\* _prioritize_tasks
_prioritize_tasks(ordered_tasks) ==
  LET mandatory == SelectSeq(ordered_tasks,
                             LAMBDA t : t \in DOMAIN graph /\ graph[t].mandatory)
      non_mandatory == SelectSeq(ordered_tasks, LAMBDA t : t \notin Range(mandatory))
  IN mandatory \o SortByKey(non_mandatory)

\* Python's s[:n], negative n included
SliceTo(s, n) ==
  IF n >= 0 THEN SubSeq(s, 1, Min(n, Len(s)))
  ELSE SubSeq(s, 1, Max(Len(s) + n, 0))

\* step 5 with the slice one element too long
Truncate_off_by_one(ordered_tasks) ==
  IF Len(ordered_tasks) > config.max_tasks
  THEN SliceTo(_prioritize_tasks(ordered_tasks), config.max_tasks + 1)
  ELSE ordered_tasks

\* get_required_tasks, step 5 (lines 91-95)
Truncate(ordered_tasks) ==
  IF Len(ordered_tasks) > config.max_tasks
  THEN SliceTo(_prioritize_tasks(ordered_tasks), config.max_tasks)
  ELSE ordered_tasks

\* get_required_tasks, steps 4 and 5 (lines 88-95) on the closure; `order`
\* is the iteration order of the closure
OrderedTasks(task_ids, order) ==
  LET sorted == _topological_sort(task_ids, order)
  IN IF sorted.status = "error" THEN sorted ELSE Returned(Truncate(sorted.value))

\* one reason string of explain_selection
Reason(kind, dims, of) == [kind |-> kind, dims |-> dims, of |-> of]

\* the dependency reason naming the last selected id that lists task_id
DependencyReason_last(task_id, required_tasks) ==
  LET users == {i \in 1..Len(required_tasks) :
                  /\ required_tasks[i] \in DOMAIN graph
                  /\ task_id \in Range(graph[required_tasks[i]].dependencies)}
  IN IF users = {} THEN <<>>
     ELSE <<Reason("dependency", {},
                   required_tasks[CHOOSE i \in users : \A j \in users : i >= j])>>

\* explain_selection, lines 236-240: the first selected id that lists
\* task_id as a dependency
DependencyReason(task_id, required_tasks) ==
  LET users == {i \in 1..Len(required_tasks) :
                  /\ required_tasks[i] \in DOMAIN graph
                  /\ task_id \in Range(graph[required_tasks[i]].dependencies)}
  IN IF users = {} THEN <<>>
     ELSE <<Reason("dependency", {},
                   required_tasks[CHOOSE i \in users : \A j \in users : i <= j])>>

\* explain_selection, lines 223-242: the reasons of one selected node
Reasons(task_id, required_tasks, dimensions) ==
  LET node == graph[task_id]
      matching_dims == node.dimensions \cap
                       get_active_dimensions(dimensions, config.dimension_threshold)
      reasons == (IF node.mandatory THEN <<Reason("mandatory", {}, 0)>> ELSE <<>>)
                 \o (IF matching_dims # {} THEN <<Reason("dimensions", matching_dims, 0)>>
                     ELSE <<>>)
                 \o DependencyReason(task_id, required_tasks)
  IN IF reasons # <<>> THEN reasons ELSE <<Reason("unknown", {}, 0)>>

\* explain_selection, lines 218-221: the ids that get an entry
Explained(required_tasks) == SelectSeq(required_tasks, LAMBDA t : t \in DOMAIN graph)

\* no explain_selection call made yet
NoExplanation == [status |-> "none", items |-> <<>>]

\* explain_selection, lines 216-244, on the outcome of its get_required_tasks
\* call: the dict as the list of its items, in insertion order
explain_selection(required, dimensions) ==
  IF required.status = "error"
  THEN [status |-> "error", items |-> <<>>]
  ELSE [status |-> "map",
        items |-> [i \in 1..Len(Explained(required.value)) |->
                     [task_id |-> Explained(required.value)[i],
                      reasons |-> Reasons(Explained(required.value)[i],
                                          required.value, dimensions)]]]

\* get_weight with no default for an id outside the ontology
get_weight_no_default(task_id) ==
  IF task_id \in DOMAIN graph THEN graph[task_id].risk_weight ELSE 0

\* calculate_coverage, get_weight (lines 266-268): 1.0, in tenths, for an id
\* outside the ontology
get_weight(task_id) ==
  IF task_id \in DOMAIN graph THEN graph[task_id].risk_weight ELSE UnknownWeight

RECURSIVE SumWeights(_)
\* sum(get_weight(t) for t in tasks)
SumWeights(tasks) ==
  IF tasks = <<>> THEN 0 ELSE get_weight(Head(tasks)) + SumWeights(Tail(tasks))

\* a returned float as the exact fraction num / den
Ratio(num, den) == [status |-> "ratio", num |-> num, den |-> den]

\* no calculate_coverage call made yet
NoCoverage == [status |-> "none", num |-> 0, den |-> 1]

\* 0.0 returned where the code returns 1.0
FullCoverage_zero == Ratio(0, 1)

\* calculate_coverage, lines 264 and 273: return 1.0
FullCoverage == Ratio(1, 1)

\* calculate_coverage (lines 263-273).  Sums and quotient are exact here;
\* the rounding of Python's floats is not modelled.
calculate_coverage(executed, required) ==
  IF required = <<>> THEN FullCoverage
  ELSE LET required_weight == SumWeights(required)
           executed_weight ==
             SumWeights(SelectSeq(executed, LAMBDA t : t \in Range(required)))
       IN IF required_weight > 0 THEN Ratio(executed_weight, required_weight)
          ELSE FullCoverage

(* ----------------------- TaskExpander, pipeline ------------------------ *)

\* src/src/models/task.py, ExpandedTask: the field that names the task
ExpandedTask(task_id) == [task_id |-> task_id]

RECURSIVE expand_tasks(_)
\* TaskExpander.expand_tasks (lines 149-159): one ExpandedTask per id, an id
\* without a node is skipped
expand_tasks(task_ids) ==
  IF task_ids = <<>> THEN <<>>
  ELSE IF Head(task_ids) \notin DOMAIN graph THEN expand_tasks(Tail(task_ids))
       ELSE <<ExpandedTask(Head(task_ids))>> \o expand_tasks(Tail(task_ids))

\* no process_claim call made yet
NoPlan ==
  [status |-> "none", required_task_ids |-> <<>>, expanded_tasks |-> <<>>,
   coverage |-> NoCoverage]

\* the plan with the coverage of a run in which nothing was executed yet
VerificationPlan_nothing_executed(required) ==
  IF required.status = "error"
  THEN [status |-> "error", required_task_ids |-> <<>>, expanded_tasks |-> <<>>,
        coverage |-> NoCoverage]
  ELSE [status |-> "plan",
        required_task_ids |-> required.value,
        expanded_tasks |-> expand_tasks(required.value),
        coverage |-> calculate_coverage(<<>>, required.value)]

\* VerificationPipeline.process_claim, stages 2 and 3 and the coverage
\* (lines 108-131), on the outcome of its get_required_tasks call
VerificationPlan(required) ==
  IF required.status = "error"
  THEN [status |-> "error", required_task_ids |-> <<>>, expanded_tasks |-> <<>>,
        coverage |-> NoCoverage]
  ELSE [status |-> "plan",
        required_task_ids |-> required.value,
        expanded_tasks |-> expand_tasks(required.value),
        coverage |-> calculate_coverage(required.value, required.value)]

(* ------------------------------ the machine ---------------------------- *)

\* no second thread: the calls are made one after the other
NoThreads ==
  /\ thread_calls = <<>>
  /\ thread_pc = <<>>
  /\ frames = <<>>
  /\ thread_result = <<>>

\* MockDatabase.__init__ (database.py lines 19-22): three empty dicts
MockDatabase == [users |-> <<>>, claims |-> <<>>, tasks |-> <<>>]

\* no API request answered yet
NoResponse == [op |-> "none", wallet |-> "", status |-> 0, body |-> {}]

\* no API running next to the engine
NoRequests ==
  /\ db = MockDatabase
  /\ response = NoResponse

\* the locals of get_required_tasks (lines 119-120, 142, 152-153) before the
\* call has started
NoFrame ==
  [pc |-> "none", all_required |-> {}, queue |-> <<>>, in_degree |-> <<>>,
   sorted_tasks |-> <<>>, others |-> <<>>, result |-> NoReturn]

\* no call run loop by loop
NoSteps == call_frame = NoFrame

Init ==
  \E in \in Inputs :
    /\ graph = in[1]
    /\ config = in[2]
    /\ classification = in[3]
    /\ pc = "idle"
    /\ activated_tasks = {}
    /\ all_required = {}
    /\ previous_return = NoReturn
    /\ last_return = NoReturn
    /\ explanations = NoExplanation
    /\ coverage_executed = <<>>
    /\ coverage_required = <<>>
    /\ coverage = NoCoverage
    /\ plan = NoPlan
    /\ NoThreads
    /\ NoSteps
    /\ NoRequests

\* get_required_tasks, steps 1 to 3 (lines 71-86): the seed set and its
\* closure, for a call made through the entry point op
Activate(op) ==
  /\ pc = "idle"
  /\ \E seed_order \in IterationOrders(SeedSet(classification)) :
       LET closure == _add_dependencies(SeedSet(classification), seed_order)
       IN /\ activated_tasks' = SeedSet(classification)
          /\ all_required' = closure
          /\ graph' = GraphAfterLookups(closure)
  /\ pc' = op
  /\ UNCHANGED <<config, classification, previous_return, last_return, explanations>>
  /\ UNCHANGED <<scoreVars, plan, threadVars, call_frame, storeVars>>

\* a caller runs engine.get_required_tasks(classification)
CallGetRequiredTasks == Activate("get_required_tasks")

\* a caller runs engine.explain_selection(classification), which starts
\* with its own get_required_tasks call (line 215)
CallExplainSelection == Activate("explain_selection")

\* get_required_tasks, steps 4 and 5, and the return (or the raise)
ReturnGetRequiredTasks ==
  /\ pc = "get_required_tasks"
  /\ \E closure_order \in IterationOrders(all_required) :
       last_return' = OrderedTasks(all_required, closure_order)
  /\ previous_return' = last_return
  /\ pc' = "idle"
  /\ graph' = GraphAfterLookups(all_required)
  /\ UNCHANGED <<config, classification, activated_tasks, all_required, explanations>>
  /\ UNCHANGED <<scoreVars, plan, threadVars, call_frame, storeVars>>

\* explain_selection: the rest of its get_required_tasks call, the loop
\* over the selected ids and the return (or the raise passed on)
ReturnExplainSelection ==
  /\ pc = "explain_selection"
  /\ \E closure_order \in IterationOrders(all_required) :
       explanations' = explain_selection(OrderedTasks(all_required, closure_order),
                                         classification)
  /\ pc' = "idle"
  /\ graph' = GraphAfterLookups(all_required)
  /\ UNCHANGED <<config, classification, activated_tasks, all_required,
                 previous_return, last_return>>
  /\ UNCHANGED <<scoreVars, plan, threadVars, call_frame, storeVars>>

Next ==
  \/ CallGetRequiredTasks
  \/ ReturnGetRequiredTasks
  \/ CallExplainSelection
  \/ ReturnExplainSelection

Spec == Init /\ [][Next]_vars

(* ------------------------- the coverage scorer ------------------------- *)

\* the argument lists of calculate_coverage: any ids, known or not, repeated
\* or not
IdLists == UNION {[1..k -> AllIds] : k \in 0..MaxListLen}

\* an engine before its first call, called by one thread at a time
FreshEngine ==
  /\ NoThreads
  /\ NoSteps
  /\ pc = "idle"
  /\ activated_tasks = {}
  /\ all_required = {}
  /\ previous_return = NoReturn
  /\ last_return = NoReturn
  /\ explanations = NoExplanation
  /\ coverage = NoCoverage
  /\ plan = NoPlan

\* the ontologies the scorer is run over
CoverageGraphs == FixtureGraphs \cup {ZeroWeight}

InitCoverage ==
  /\ graph \in CoverageGraphs
  /\ config = GraphConfig(1, TRUE, MaxTasksCap)
  /\ classification = <<>>
  /\ coverage_executed \in IdLists
  /\ coverage_required \in IdLists
  /\ FreshEngine
  /\ NoRequests

\* a caller runs engine.calculate_coverage(executed, required)
CalculateCoverage(executed, required) ==
  /\ pc = "idle"
  /\ coverage_executed' = executed
  /\ coverage_required' = required
  /\ coverage' = calculate_coverage(executed, required)
  /\ graph' = GraphAfterLookups(Range(executed) \cup Range(required))
  /\ UNCHANGED <<config, classification, activated_tasks, all_required,
                 previous_return, last_return, explanations, pc, plan, threadVars, call_frame, storeVars>>

\* the call on the lists at hand
NextCoverage == CalculateCoverage(coverage_executed, coverage_required)

SpecCoverage == InitCoverage /\ [][NextCoverage]_vars

(* ----------------------------- the pipeline ---------------------------- *)

\* node 1 is mandatory; nodes 2 and 3 depend on each other
Cyclic ==
  (1 :> TaskGraphNode({"correctness"}, <<>>, TRUE, 20)) @@
  (2 :> TaskGraphNode({"security"}, <<3>>, FALSE, 15)) @@
  (3 :> TaskGraphNode({"security"}, <<2>>, FALSE, 15))

\* the ontologies the pipeline is run over
PipelineGraphs == FixtureGraphs \cup {Cyclic, ZeroWeight}

\* the classifications stage 1 hands on: every dimension inactive or active
PipelineClassifications == [Dims -> {0, MaxWeight}]

InitPipeline ==
  /\ graph \in PipelineGraphs
  /\ config \in GeneratedConfigs
  /\ classification \in PipelineClassifications
  /\ coverage_executed = <<>>
  /\ coverage_required = <<>>
  /\ FreshEngine
  /\ NoRequests

\* process_claim up to the closure of its get_required_tasks call (line 109)
CallProcessClaim == Activate("process_claim")

\* process_claim: the rest of its get_required_tasks call, the expansion,
\* the coverage and the plan (lines 109-131), or the raise passed on
ReturnProcessClaim ==
  /\ pc = "process_claim"
  /\ \E closure_order \in IterationOrders(all_required) :
       plan' = VerificationPlan(OrderedTasks(all_required, closure_order))
  /\ pc' = "idle"
  /\ graph' = GraphAfterLookups(all_required)
  /\ UNCHANGED <<config, classification, activated_tasks, all_required,
                 previous_return, last_return, explanations, scoreVars, threadVars, call_frame, storeVars>>

\* the plan's tasks are scored after the first executed of them are done
ScorePlan ==
  /\ plan.status = "plan"
  /\ \E executed \in 0..Len(plan.required_task_ids) :
       CalculateCoverage(SubSeq(plan.required_task_ids, 1, executed),
                         plan.required_task_ids)

NextPipeline ==
  \/ CallProcessClaim
  \/ ReturnProcessClaim
  \/ ScorePlan
  \/ CallGetRequiredTasks
  \/ ReturnGetRequiredTasks
  \/ CallExplainSelection
  \/ ReturnExplainSelection

SpecPipeline == InitPipeline /\ [][NextPipeline]_vars

(* ----------------- the pipeline over the shipped ontology -------------- *)

\* what the classifier hands on: a weight, in tenths, for each of the eight
\* dimensions, just below the default threshold or at it
ShippedClassifications == [ShippedDims -> {DefaultThreshold - 1, DefaultThreshold}]

InitShipped ==
  /\ graph = VERIFICATION_TASK_GRAPH
  /\ config = DEFAULT_GRAPH_CONFIG
  /\ classification \in ShippedClassifications
  /\ coverage_executed = <<>>
  /\ coverage_required = <<>>
  /\ FreshEngine
  /\ NoRequests

NextShipped == CallProcessClaim \/ ReturnProcessClaim

SpecShipped == InitShipped /\ [][NextShipped]_vars

(* -------------- the engine over the shipped ontology, capped ----------- *)

\* the values max_tasks takes over the shipped ontology: a negative one and
\* the 2 of the truncation scenario
CappedMaxTasks == {-1, 2}

InitCapped ==
  /\ graph = VERIFICATION_TASK_GRAPH
  /\ config \in {GraphConfig(DefaultThreshold, TRUE, m) : m \in CappedMaxTasks}
  /\ classification \in ShippedClassifications
  /\ coverage_executed = <<>>
  /\ coverage_required = <<>>
  /\ FreshEngine
  /\ NoRequests

NextCapped == CallGetRequiredTasks \/ ReturnGetRequiredTasks

SpecCapped == InitCapped /\ [][NextCapped]_vars

(* ------------------------- concurrent callers -------------------------- *)

Threads == 1..NumThreads

\* the classifications the threads call with: nothing active, or "security"
ThreadClassifications ==
  {<<>>, [d \in Dims |-> IF d = "security" THEN MaxWeight ELSE 0]}

\* one call on the engine: the entry point and its arguments
Call(op, dimensions, executed, required) ==
  [op |-> op, dimensions |-> dimensions, executed |-> executed, required |-> required]

\* the calls a thread can make
ThreadCalls ==
  {Call(op, c, <<>>, <<>>) :
     op \in {"get_required_tasks", "explain_selection"}, c \in ThreadClassifications}
  \cup {Call("calculate_coverage", <<>>, <<1>>, <<1, UnknownId>>)}

\* every call frame kept in one place, as attributes of the engine would be
Frame_shared(t) == 1

\* the frame of thread t's call: activated_tasks, all_required, the queues
\* and in_degree are local variables of the call (lines 72, 119-120, 142,
\* 152-153), one set of them per call
Frame(t) == t

\* the locals of a call that has not started
EmptyFrame == [activated_tasks |-> {}, all_required |-> {}]

InitThreads ==
  /\ graph \in FixtureGraphs
  /\ config = GraphConfig(1, TRUE, MaxTasksCap)
  /\ classification = <<>>
  /\ pc = "idle"
  /\ activated_tasks = {}
  /\ all_required = {}
  /\ previous_return = NoReturn
  /\ last_return = NoReturn
  /\ explanations = NoExplanation
  /\ coverage_executed = <<>>
  /\ coverage_required = <<>>
  /\ coverage = NoCoverage
  /\ plan = NoPlan
  /\ thread_calls \in [Threads -> ThreadCalls]
  /\ thread_pc = [t \in Threads |-> "start"]
  /\ frames = [t \in Threads |-> EmptyFrame]
  /\ thread_result = [t \in Threads |-> NoReturn]
  /\ NoSteps
  /\ NoRequests

\* what a thread step leaves alone: the configuration and the
\* single-caller state
ThreadFrame ==
  UNCHANGED <<config, classification, activated_tasks, all_required,
              previous_return, last_return, explanations, pc, scoreVars, plan,
              thread_calls, call_frame, storeVars>>

\* thread t, get_required_tasks steps 1 and 2 (lines 71-83): the seed set
SeedStep(t) ==
  /\ thread_pc[t] = "start"
  /\ thread_calls[t].op \in {"get_required_tasks", "explain_selection"}
  /\ frames' = [frames EXCEPT ![Frame(t)].activated_tasks =
                                 SeedSet(thread_calls[t].dimensions)]
  /\ thread_pc' = [thread_pc EXCEPT ![t] = "closure"]
  /\ UNCHANGED <<graph, thread_result>>
  /\ ThreadFrame

\* thread t, get_required_tasks step 3 (lines 85-86): the closure
ClosureStep(t) ==
  /\ thread_pc[t] = "closure"
  /\ \E seed_order \in IterationOrders(frames[Frame(t)].activated_tasks) :
       LET closure == _add_dependencies(frames[Frame(t)].activated_tasks, seed_order)
       IN /\ frames' = [frames EXCEPT ![Frame(t)].all_required = closure]
          /\ graph' = GraphAfterLookups(closure)
  /\ thread_pc' = [thread_pc EXCEPT ![t] = "sort"]
  /\ UNCHANGED thread_result
  /\ ThreadFrame

\* thread t, get_required_tasks steps 4 and 5 and the return (lines 88-95),
\* for explain_selection followed by its loop (lines 216-244)
ReturnStep(t) ==
  /\ thread_pc[t] = "sort"
  /\ \E closure_order \in IterationOrders(frames[Frame(t)].all_required) :
       LET required == OrderedTasks(frames[Frame(t)].all_required, closure_order)
       IN thread_result' =
            [thread_result EXCEPT ![t] =
               IF thread_calls[t].op = "get_required_tasks" THEN required
               ELSE explain_selection(required, thread_calls[t].dimensions)]
  /\ thread_pc' = [thread_pc EXCEPT ![t] = "done"]
  /\ graph' = GraphAfterLookups(frames[Frame(t)].all_required)
  /\ UNCHANGED frames
  /\ ThreadFrame

\* thread t, calculate_coverage (lines 263-273): sums over its arguments
CoverageStep(t) ==
  /\ thread_pc[t] = "start"
  /\ thread_calls[t].op = "calculate_coverage"
  /\ thread_result' =
       [thread_result EXCEPT ![t] =
          calculate_coverage(thread_calls[t].executed, thread_calls[t].required)]
  /\ thread_pc' = [thread_pc EXCEPT ![t] = "done"]
  /\ graph' = GraphAfterLookups(Range(thread_calls[t].executed)
                                \cup Range(thread_calls[t].required))
  /\ UNCHANGED frames
  /\ ThreadFrame

NextThreads ==
  \E t \in Threads : SeedStep(t) \/ ClosureStep(t) \/ ReturnStep(t) \/ CoverageStep(t)

SpecThreads == InitThreads /\ [][NextThreads]_vars

(* ------------------------------ the task store ------------------------- *)

\* number of accept_task requests that are granted
MaxAccepts == 2

\* the claim ids uuid4 hands out (create_claim, line 76)
NewClaimIds == {1}

\* a user profile: the field the matching reads
User(skills) == [skills |-> skills]

\* a claim record: the field the matching could read
ClaimRecord(author) == [author |-> author]

\* a task record (database.py lines 94-108); a task without the key
\* "consensus" has the consensus "none"
TaskRecord(claim_id, min_validators, required_skills, assigned_validators, status) ==
  [claim_id |-> claim_id, min_validators |-> min_validators,
   required_skills |-> required_skills,
   assigned_validators |-> assigned_validators, results |-> <<>>,
   status |-> status, consensus |-> "none"]

\* MockDatabase.seed_demo_data (lines 197-359), run on the global instance
\* (lines 363-366): five validators, three claims, four tasks.  Wallets are
\* cut to their first six characters, claim ids to their number.
seed_demo_data ==
  [users |->
     ("0xd8dA" :> User({"solidity", "security", "cryptography", "distributed-systems"})) @@
     ("0x3a1F" :> User({"python", "machine-learning", "data-science", "tensorflow"})) @@
     ("0x7B12" :> User({"rust", "performance", "benchmarking", "systems"})) @@
     ("0x9D5c" :> User({"circom", "cryptography", "zero-knowledge", "math"})) @@
     ("0x2E8F" :> User({"solidity", "defi", "math", "security"})),
   claims |->
     (8921 :> ClaimRecord("0x3a1F")) @@
     (8945 :> ClaimRecord("0x7B12")) @@
     (9012 :> ClaimRecord("0x9D5c")),
   tasks |->
     (<<8921, "T001">> :>
        TaskRecord(8921, 3, {"solidity", "defi", "math", "security"}, <<>>, "pending")) @@
     (<<8921, "T002">> :>
        TaskRecord(8921, 2, {"solidity", "defi"}, <<>>, "pending")) @@
     (<<8945, "T001">> :>
        TaskRecord(8945, 2, {"python", "machine-learning", "tensorflow", "data-science"},
                   <<"0x3a1F">>, "in_progress")) @@
     (<<9012, "T001">> :>
        TaskRecord(9012, 3, {"circom", "cryptography", "zero-knowledge"}, <<>>,
                   "pending"))]

\* the claims seed_demo_data wrote; every other claim came through create_claim
SeedClaims == DOMAIN seed_demo_data.claims

\* one task of the plan ai_core.process_claim hands to create_claim
\* (ai_core.py lines 95-106)
PlannedTask(task_id, min_validators, required_skills) ==
  [task_id |-> task_id, min_validators |-> min_validators,
   required_skills |-> required_skills]

\* the plans the AI core hands over: the mandatory node alone (task_graph.py
\* lines 79-89) or followed by throughput_benchmark (lines 119-128)
PlannedTasks ==
  {<<PlannedTask("baseline_correctness_check", 3, {"testing", "correctness"})>>,
   <<PlannedTask("baseline_correctness_check", 3, {"testing", "correctness"}),
     PlannedTask("throughput_benchmark", 2, {"performance", "load_testing"})>>}

\* the wallets that send requests: two seeded validators and a newcomer
Senders == {"0xd8dA", "0x7B12", "0xNEW1"}

\* the wallets that submit claims: a seeded validator and the newcomer
Claimants == {"0x7B12", "0xNEW1"}

\* the skills a newcomer registers with
RegisteredSkills == {{"performance", "testing"}}

\* a task id no task has
MissingTask == <<0, "T000">>

\* the tasks create_claim made
CreatedTasks == {id \in DOMAIN db.tasks : db.tasks[id].claim_id \notin SeedClaims}

\* the task ids requests name: the tasks of submitted claims and an id
\* without a task
RequestedTasks == CreatedTasks \cup {MissingTask}

RECURSIVE Sum(_, _)
\* the sum of f over the set S
Sum(f, S) ==
  IF S = {} THEN 0
  ELSE LET x == CHOOSE y \in S : TRUE IN f[x] + Sum(f, S \ {x})

\* the number of accept_task requests granted so far
Accepted ==
  Sum([id \in CreatedTasks |-> Len(db.tasks[id].assigned_validators)], CreatedTasks)

\* f with key k set to v (dict assignment)
Store(f, k, v) == [x \in DOMAIN f \cup {k} |-> IF x = k THEN v ELSE f[x]]

\* db.get_user(wallet) is None
NoUser(wallet) == wallet \notin DOMAIN db.users

\* MockDatabase.create_user (lines 28-42) on the users dict
create_user(users, wallet, skills) ==
  IF wallet \in DOMAIN users THEN users ELSE Store(users, wallet, User(skills))

\* create_claim, line 76: a fresh claim id (uuid4; collisions are not modelled)
NewClaimId == CHOOSE n \in NewClaimIds : n \notin DOMAIN db.claims

RECURSIVE CreateTasks(_, _, _)
\* create_claim, lines 92-108: the task records, in list order
CreateTasks(tasks_dict, claim_id, tasks) ==
  IF tasks = <<>> THEN tasks_dict
  ELSE CreateTasks(Store(tasks_dict, <<claim_id, Head(tasks).task_id>>,
                         TaskRecord(claim_id, Head(tasks).min_validators,
                                    Head(tasks).required_skills, <<>>, "open")),
                   claim_id, Tail(tasks))

\* MockDatabase.create_claim (lines 74-110) on the store d
create_claim(d, author, tasks) ==
  [users |-> d.users,
   claims |-> Store(d.claims, NewClaimId, ClaimRecord(author)),
   tasks |-> CreateTasks(d.tasks, NewClaimId, tasks)]

\* accept_task, line 92, and get_tasks_for_validator, line 147
HasEnoughValidators(task) == Len(task.assigned_validators) >= task.min_validators

\* get_tasks_for_validator, line 144
IsOpen(task) == task.status = "open"

\* MockDatabase.get_tasks_for_validator (lines 140-157), as the set of the
\* ids of the tasks it returns
get_tasks_for_validator(wallet, skills) ==
  {id \in DOMAIN db.tasks :
     /\ IsOpen(db.tasks[id])
     /\ ~HasEnoughValidators(db.tasks[id])
     /\ wallet \notin Range(db.tasks[id].assigned_validators)
     /\ db.tasks[id].required_skills \cap skills # {}}

\* matching.get_available_tasks_for_validator (lines 72-86)
get_available_tasks_for_validator(wallet) ==
  IF NoUser(wallet) THEN {}
  ELSE get_tasks_for_validator(wallet, db.users[wallet].skills)

\* a result taken from any registered wallet
IsAssigned_anyone(task, wallet) == TRUE

\* submit_result (tasks.py line 129): the wallet is assigned to the task
IsAssigned(task, wallet) == wallet \in Range(task.assigned_validators)

\* MockDatabase.assign_task (lines 159-168) on one task record
assign_task(task, wallet) ==
  IF wallet \notin Range(task.assigned_validators)
  THEN [task EXCEPT !.assigned_validators = Append(@, wallet),
                    !.status = IF @ = "open" THEN "in_progress" ELSE @]
  ELSE task

\* the number of results that passed
Passes(results) == Cardinality({i \in 1..Len(results) : results[i].passed})

\* a tie counted as a pass
Majority_tie_passes(results) ==
  IF 2 * Passes(results) >= Len(results) THEN "pass" ELSE "fail"

\* database.py lines 188-189 and matching.py lines 105-106:
\* "pass" if passes > len(results) / 2 else "fail"
Majority(results) ==
  IF 2 * Passes(results) > Len(results) THEN "pass" ELSE "fail"

\* MockDatabase.submit_result (lines 170-191) on one task record
submit_result(task, wallet, passed) ==
  LET results == Append(task.results, [validator |-> wallet, passed |-> passed])
  IN IF Len(results) >= task.min_validators
     THEN [task EXCEPT !.results = results, !.status = "completed",
                       !.consensus = Majority(results)]
     ELSE [task EXCEPT !.results = results]

\* matching.check_consensus (lines 89-106) on one task record; None is "none"
check_consensus(task) ==
  IF Len(task.results) < task.min_validators THEN "none"
  ELSE Majority(task.results)

\* an answer to a request: the status code and the body; the wallet is kept
\* for GET /tasks only
Response(op, wallet, status, body) ==
  [op |-> op, wallet |-> wallet, status |-> status, body |-> body]

\* the API leaves the engine's variables alone
EngineUntouched ==
  UNCHANGED <<graph, config, classification, activated_tasks, all_required,
              previous_return, last_return, explanations, pc, scoreVars, plan,
              threadVars, call_frame>>

InitStore ==
  /\ graph = VERIFICATION_TASK_GRAPH
  /\ config = DEFAULT_GRAPH_CONFIG
  /\ classification = <<>>
  /\ coverage_executed = <<>>
  /\ coverage_required = <<>>
  /\ FreshEngine
  /\ db = seed_demo_data
  /\ response = NoResponse

\* POST /users/register (users.py lines 17-31)
register_user(wallet, skills) ==
  /\ db' = [db EXCEPT !.users = create_user(@, wallet, skills)]
  /\ response' = Response("register_user", "", 200, {})
  /\ EngineUntouched

\* POST /claims (claims.py lines 18-50): the author is registered if need
\* be, the plan of the AI core is stored
submit_claim(wallet, tasks) ==
  /\ NewClaimIds \ DOMAIN db.claims # {}
  /\ db' = create_claim([db EXCEPT !.users = create_user(@, wallet, {})],
                        wallet, tasks)
  /\ response' = Response("submit_claim", "", 200, {})
  /\ EngineUntouched

\* GET /tasks/?wallet= (tasks.py lines 19-48)
get_available_tasks(wallet) ==
  /\ response' =
       IF NoUser(wallet) THEN Response("get_available_tasks", wallet, 404, {})
       ELSE Response("get_available_tasks", wallet, 200,
                     get_available_tasks_for_validator(wallet))
  /\ UNCHANGED db
  /\ EngineUntouched

\* POST /tasks/{task_id}/accept (tasks.py lines 74-108)
accept_task(task_id, wallet) ==
  /\ IF NoUser(wallet) \/ task_id \notin DOMAIN db.tasks
     THEN /\ response' = Response("accept_task", "", 404, {})
          /\ UNCHANGED db
     ELSE IF \/ HasEnoughValidators(db.tasks[task_id])
             \/ wallet \in Range(db.tasks[task_id].assigned_validators)
          THEN /\ response' = Response("accept_task", "", 400, {})
               /\ UNCHANGED db
          ELSE /\ Accepted < MaxAccepts
               /\ db' = [db EXCEPT !.tasks[task_id] = assign_task(@, wallet)]
               /\ response' = Response("accept_task", "", 200, {})
  /\ EngineUntouched

\* POST /tasks/{task_id}/submit (tasks.py lines 111-157); the body of the
\* answer is what check_consensus returned
submit_task_result(task_id, wallet, passed) ==
  /\ IF NoUser(wallet) \/ task_id \notin DOMAIN db.tasks
     THEN /\ response' = Response("submit_result", "", 404, {})
          /\ UNCHANGED db
     ELSE IF ~IsAssigned(db.tasks[task_id], wallet)
          THEN /\ response' = Response("submit_result", "", 403, {})
               /\ UNCHANGED db
          ELSE IF \E i \in 1..Len(db.tasks[task_id].results) :
                    db.tasks[task_id].results[i].validator = wallet
               THEN /\ response' = Response("submit_result", "", 400, {})
                    /\ UNCHANGED db
               ELSE /\ db' = [db EXCEPT !.tasks[task_id] =
                                          submit_result(@, wallet, passed)]
                    /\ response' =
                         Response("submit_result", "", 200,
                                  {check_consensus(
                                     submit_result(db.tasks[task_id], wallet, passed))})
  /\ EngineUntouched

NextStore ==
  \/ \E wallet \in Senders, skills \in RegisteredSkills : register_user(wallet, skills)
  \/ \E wallet \in Claimants, tasks \in PlannedTasks : submit_claim(wallet, tasks)
  \/ \E wallet \in Senders : get_available_tasks(wallet)
  \/ \E task_id \in RequestedTasks, wallet \in Senders : accept_task(task_id, wallet)
  \/ \E task_id \in RequestedTasks, wallet \in Senders, passed \in BOOLEAN :
       submit_task_result(task_id, wallet, passed)

SpecStore == InitStore /\ [][NextStore]_vars

(* ------------------- one call, run loop by loop ------------------------ *)

\* deque.popleft() leaving the queue as it was
PopLeft_peek(queue) == queue

\* deque.popleft() (lines 122 and 158): the queue without its first id
PopLeft(queue) == Tail(queue)

\* the inputs the call is stepped over: every generated ontology and every
\* fixture, under the generated classifications and the default cap (the
\* cap is read once, after both loops)
StepInputs ==
  (GeneratedGraphs \cup FixtureGraphs) \X {GraphConfig(1, TRUE, DefaultMaxTasks)}
    \X GeneratedClassifications

InitSteps ==
  \E in \in StepInputs :
    /\ graph = in[1]
    /\ config = in[2]
    /\ classification = in[3]
    /\ coverage_executed = <<>>
    /\ coverage_required = <<>>
    /\ FreshEngine
    /\ NoRequests

\* everything but the locals of the stepped call
StepFrame ==
  <<graph, config, classification, activated_tasks, all_required, previous_return,
    last_return, explanations, pc, scoreVars, plan, threadVars, storeVars>>

\* get_required_tasks, steps 1 and 2, and the start of _add_dependencies
\* (lines 71-83, 119-120): the seed set, queued in its iteration order
StartCall ==
  /\ call_frame.pc = "none"
  /\ \E seed_order \in IterationOrders(SeedSet(classification)) :
       call_frame' = [NoFrame EXCEPT !.pc = "_add_dependencies",
                                     !.all_required = SeedSet(classification),
                                     !.queue = seed_order]
  /\ UNCHANGED StepFrame

\* _add_dependencies, one pass of the while loop (lines 121-131)
ExpandOne ==
  /\ call_frame.pc = "_add_dependencies"
  /\ call_frame.queue # <<>>
  /\ \E task_id \in {Head(call_frame.queue)}, queue \in {PopLeft(call_frame.queue)} :
       IF task_id \notin DOMAIN graph
       THEN call_frame' = [call_frame EXCEPT !.queue = queue]
       ELSE \E r \in {ScanDependencies(graph[task_id].dependencies,
                                       call_frame.all_required, queue)} :
              call_frame' = [call_frame EXCEPT !.all_required = r.all_required,
                                               !.queue = r.queue]
  /\ UNCHANGED StepFrame

\* the while loop of _add_dependencies left with the queue empty (lines 121,
\* 133) and the start of _topological_sort (lines 142-153); `order` is the
\* iteration order of the closure
StartSort ==
  /\ call_frame.pc = "_add_dependencies"
  /\ call_frame.queue = <<>>
  /\ \E order \in IterationOrders(call_frame.all_required),
        in_degree \in {InDegree(call_frame.all_required)} :
       call_frame' =
         [call_frame EXCEPT !.pc = "_topological_sort",
                            !.in_degree = in_degree,
                            !.others = order,
                            !.queue = SelectSeq(order, LAMBDA task_id :
                                                         in_degree[task_id] = 0)]
  /\ UNCHANGED StepFrame

\* _topological_sort, one pass of the while loop (lines 155-167)
PlaceOne ==
  /\ call_frame.pc = "_topological_sort"
  /\ call_frame.queue # <<>>
  /\ \E queue \in {SortQueue(call_frame.queue)} :
       \E r \in {ReduceDependents(call_frame.others, Head(queue),
                                  call_frame.in_degree, PopLeft(queue))} :
         call_frame' =
           [call_frame EXCEPT !.in_degree = r.in_degree,
                              !.queue = r.queue,
                              !.sorted_tasks = Append(call_frame.sorted_tasks,
                                                      Head(queue))]
  /\ UNCHANGED StepFrame

\* the while loop of _topological_sort left with the queue empty, the cycle
\* check (lines 169-174) and step 5 with the return (lines 91-95)
EndCall ==
  /\ call_frame.pc = "_topological_sort"
  /\ call_frame.queue = <<>>
  /\ \E sorted \in {CycleCheck(call_frame.sorted_tasks, call_frame.all_required)} :
       call_frame' =
         IF sorted.status = "error"
         THEN [call_frame EXCEPT !.pc = "raised", !.result = sorted]
         ELSE [call_frame EXCEPT !.pc = "returned",
                                 !.result = Returned(Truncate(sorted.value))]
  /\ UNCHANGED StepFrame

NextSteps == StartCall \/ ExpandOne \/ StartSort \/ PlaceOne \/ EndCall

\* the caller's thread keeps running: a step that can be taken is taken
SpecSteps == InitSteps /\ [][NextSteps]_vars /\ WF_vars(NextSteps)

(* ------------------------------ properties ----------------------------- *)

\* some call has computed its seed set and closure
CallMade ==
  pc # "idle" \/ last_return.status # "none" \/ explanations.status # "none"

\* the latest get_required_tasks call returned a list
ListReturned == last_return.status = "list"

\* the closure of the latest call fits the cap: step 5 leaves the order alone
Untruncated == Cardinality(all_required) <= config.max_tasks

\* node b lists a as a dependency
DependsOn(b, a) == b \in DOMAIN graph /\ a \in Range(graph[b].dependencies)

RECURSIVE ReachableWithin(_, _)
\* the ids of S reachable from the ids of F along dependency entries
ReachableWithin(S, F) ==
  LET next == F \cup {d \in S : \E n \in F : DependsOn(n, d)}
  IN IF next = F THEN F ELSE ReachableWithin(S, next)

\* the direct and transitive dependencies of t that exist in the ontology
TransitiveDependencies(t) ==
  ReachableWithin(DOMAIN graph, {d \in DOMAIN graph : DependsOn(t, d)})

\* the ids of S that lie on a dependency cycle of the subgraph induced on S
OnCycle(S) ==
  {n \in S : n \in ReachableWithin(S, {d \in S : DependsOn(n, d)})}

\* the rule of step 2, stated on the classification weights
ActivatedByDimension(n) ==
  \E d \in graph[n].dimensions :
    d \in DOMAIN classification /\ classification[d] >= config.dimension_threshold

\* the keys of the explanation dict, in insertion order
ExplainedKeys == [i \in 1..Len(explanations.items) |-> explanations.items[i].task_id]

(* C1: determinism.  With the ontology, the configuration and the           *)
(* classification fixed, two get_required_tasks calls return the same       *)
(* outcome (the same ordered list, or the same error), whatever order the   *)
(* seed set and the closure are iterated in during either call.             *)
C1_Determinism == previous_return.status # "none" => last_return = previous_return

\* two calls returned a list whose closure had two nodes ready at once
C1_Witness ==
  /\ previous_return.status = "list"
  /\ last_return.status = "list"
  /\ \E a, b \in all_required :
       a # b /\ InDegree(all_required)[a] = 0 /\ InDegree(all_required)[b] = 0

C3_Original ==
  ListReturned =>
    \A t \in Range(last_return.value) :
      TransitiveDependencies(t) \subseteq Range(last_return.value)

(* C3, amended: whenever the closure size does not exceed max_tasks (no     *)
(* truncation), every ontology node that a returned id depends on,          *)
(* directly or transitively, is returned too.                               *)
C3_ClosureCompleteness ==
  (ListReturned /\ Untruncated) =>
    \A t \in Range(last_return.value) :
      TransitiveDependencies(t) \subseteq Range(last_return.value)

\* an untruncated list with a node that is neither a seed nor a direct
\* dependency of the returned id that needs it
C3_Witness ==
  /\ ListReturned
  /\ Untruncated
  /\ \E t \in Range(last_return.value) :
       \E d \in TransitiveDependencies(t) :
         /\ ~DependsOn(t, d)
         /\ d \notin activated_tasks
         /\ d \in Range(last_return.value)

(* C4: topological validity.  Whenever the closure size does not exceed     *)
(* max_tasks, a returned id that another returned id lists as a dependency  *)
(* stands at a strictly smaller index.                                      *)
C4_TopologicalValidity ==
  (ListReturned /\ Untruncated) =>
    \A i, j \in 1..Len(last_return.value) :
      DependsOn(last_return.value[j], last_return.value[i]) => i < j

\* an untruncated list where a dependency with the larger id comes first
C4_Witness ==
  /\ ListReturned
  /\ Untruncated
  /\ \E i, j \in 1..Len(last_return.value) :
       /\ DependsOn(last_return.value[j], last_return.value[i])
       /\ i < j
       /\ last_return.value[i] > last_return.value[j]

(* C5: a cycle is fatal.  Whenever the subgraph induced on the closure has  *)
(* a dependency cycle, get_required_tasks raises the error, the error names *)
(* ids of the closure among which every id on a cycle is found, and no      *)
(* list is returned.                                                        *)
C5_CycleIsFatal ==
  (last_return.status # "none" /\ OnCycle(all_required) # {}) =>
    /\ last_return.status = "error"
    /\ last_return.value = <<>>
    /\ OnCycle(all_required) \subseteq last_return.remaining
    /\ last_return.remaining \subseteq all_required

\* two activated nodes depending on each other: the error names both
C5_Witness ==
  /\ last_return.status = "error"
  /\ Cardinality(OnCycle(all_required)) = 2
  /\ OnCycle(all_required) \subseteq activated_tasks
  /\ last_return.remaining = OnCycle(all_required)

(* C6: a dependency id without a node in the ontology is dropped: it is     *)
(* not part of the closure and every returned id is a node of the ontology. *)
C6_Original ==
  last_return.status # "none" =>
    /\ all_required \subseteq DOMAIN graph
    /\ Range(last_return.value) \subseteq DOMAIN graph

(* C7 as stated: for any max_tasks the returned list has at most max_tasks  *)
(* elements.                                                                *)
C7_Original == ListReturned => Len(last_return.value) <= config.max_tasks

(* C7, amended: for any max_tasks that is not negative, the returned list   *)
(* has at most max_tasks elements.                                          *)
C7_HardCap ==
  (ListReturned /\ config.max_tasks >= 0) => Len(last_return.value) <= config.max_tasks

\* a closure larger than the cap, cut to exactly max_tasks elements
C7_Witness ==
  /\ ListReturned
  /\ config.max_tasks >= 1
  /\ Cardinality(all_required) > config.max_tasks
  /\ Len(last_return.value) = config.max_tasks

(* C8: activation rule.  A non-mandatory node is in the seed set if and     *)
(* only if at least one of its dimensions has a classification weight       *)
(* greater than or equal to dimension_threshold.                            *)
C8_ActivationRule ==
  CallMade =>
    \A n \in DOMAIN graph :
      ~graph[n].mandatory => (n \in activated_tasks <=> ActivatedByDimension(n))

\* a node seeded by one dimension exactly at the threshold while its other
\* dimension is just below it, and a node left out with its only dimension
\* just below the threshold
C8_Witness ==
  /\ CallMade
  /\ \E n \in activated_tasks :
       /\ ~graph[n].mandatory
       /\ \E d, e \in graph[n].dimensions \cap DOMAIN classification :
            /\ classification[d] = config.dimension_threshold
            /\ classification[e] = config.dimension_threshold - 1
  /\ \E m \in DOMAIN graph \ activated_tasks :
       \E d \in DOMAIN classification :
         graph[m].dimensions = {d} /\ classification[d] = config.dimension_threshold - 1

(* C9: include_mandatory is honoured.  With include_mandatory false a       *)
(* mandatory node is in the seed set only if one of its dimensions is       *)
(* active, and in the returned list only if it is so activated or is a      *)
(* transitive dependency of an activated node.                              *)
C9_Original ==
  (CallMade /\ ~config.include_mandatory) =>
    /\ \A n \in activated_tasks \cap DOMAIN graph :
         graph[n].mandatory => ActivatedByDimension(n)
    /\ ListReturned =>
         \A n \in Range(last_return.value) \cap DOMAIN graph :
           graph[n].mandatory =>
             \/ ActivatedByDimension(n)
             \/ \E a \in DOMAIN graph :
                  ActivatedByDimension(a) /\ n \in TransitiveDependencies(a)

(* C10: the keys of explain_selection's dict, in insertion order, are the   *)
(* ids get_required_tasks returns, in the same order.                       *)
C10_Original ==
  (explanations.status = "map" /\ ListReturned) => ExplainedKeys = last_return.value

(* C11: every selected id is explainable.  No entry of explain_selection's  *)
(* dict holds the fallback reason "unknown": each explained id is           *)
(* mandatory, activated by a dimension, or a dependency of another          *)
(* selected id.                                                             *)
C11_Original ==
  explanations.status = "map" =>
    \A i \in 1..Len(explanations.items) :
      \A k \in 1..Len(explanations.items[i].reasons) :
        explanations.items[i].reasons[k].kind # "unknown"


\* how often id occurs in the list s
Occurrences(s, id) == Cardinality({i \in 1..Len(s) : s[i] = id})

\* the weight the ontology gives an id, in tenths: 1.0 for an id it lacks
WeightOf(id) == IF id \in DOMAIN graph THEN graph[id].risk_weight ELSE 10

RECURSIVE WeightedCount(_, _, _)
\* the sum over the ids of S of WeightOf(id) times its occurrences in s,
\* counting only ids that occur in the list among
WeightedCount(S, s, among) ==
  IF S = {} THEN 0
  ELSE LET id == CHOOSE x \in S : TRUE
       IN (IF id \in Range(among) THEN Occurrences(s, id) * WeightOf(id) ELSE 0)
          + WeightedCount(S \ {id}, s, among)

\* the weighted required sum of the latest calculate_coverage call
RequiredWeight == WeightedCount(AllIds, coverage_required, coverage_required)

\* the weighted executed sum of the latest calculate_coverage call
ExecutedWeight == WeightedCount(AllIds, coverage_executed, coverage_required)

\* a calculate_coverage call has returned
Scored == coverage.status = "ratio"

(* C12: coverage is a ratio in [0,1].  For any executed and required lists  *)
(* the weighted executed sum does not exceed the weighted required sum, and *)
(* the returned value lies between 0.0 and 1.0 inclusive.                   *)
C12_Original ==
  Scored =>
    /\ ExecutedWeight <= RequiredWeight
    /\ 0 <= coverage.num
    /\ coverage.num <= coverage.den

(* C13: coverage formula.  With a positive required weight the returned     *)
(* value equals the sum of weight(e) over the executed ids e that are       *)
(* members of required (each counted as often as it is listed) divided by   *)
(* the sum of weight(r) over the required ids r, weight being risk_weight   *)
(* or 1.0 for an id outside the ontology; an empty executed list gives 0.0. *)
C13_CoverageFormula ==
  (Scored /\ RequiredWeight > 0) =>
    /\ coverage.den > 0
    /\ coverage.num * RequiredWeight = ExecutedWeight * coverage.den
    /\ coverage_executed = <<>> => coverage.num = 0

\* a score strictly between 0 and 1: the required list holds an id outside
\* the ontology, the executed list an id that is not required
C13_Witness ==
  /\ Scored
  /\ UnknownId \in Range(coverage_required)
  /\ \E e \in Range(coverage_executed) : e \notin Range(coverage_required)
  /\ 0 < coverage.num
  /\ coverage.num < coverage.den

(* C14: vacuous coverage.  Whenever the required weight is zero, in         *)
(* particular whenever the required list is empty, calculate_coverage      *)
(* returns 1.0 whatever the executed list holds.                            *)
C14_VacuousCoverage ==
  (Scored /\ RequiredWeight = 0) => (coverage.den > 0 /\ coverage.num = coverage.den)

\* required ids that weigh nothing, against an executed list that is not
\* empty
C14_Witness ==
  /\ Scored
  /\ coverage_required # <<>>
  /\ RequiredWeight = 0
  /\ coverage_executed # <<>>
  /\ coverage.num = coverage.den

\* the latest process_claim call returned a plan
Planned == plan.status = "plan"

\* the task_id values of plan.expanded_tasks, in order
ExpandedIds == [i \in 1..Len(plan.expanded_tasks) |-> plan.expanded_tasks[i].task_id]

(* C15: the expansion stage neither adds, removes nor reorders tasks.  The  *)
(* task_id values of plan.expanded_tasks equal plan.required_task_ids,      *)
(* element by element.                                                      *)
C15_Original == Planned => ExpandedIds = plan.required_task_ids

\* a dimension name that no node of any ontology carries
UnknownDim == "novelty"

\* the outcome of get_required_tasks on the classification dimensions, sets
\* iterated in ascending order
SelectOf(dimensions) ==
  LET closure == _add_dependencies(SeedSet(dimensions), Ascending(SeedSet(dimensions)))
  IN OrderedTasks(closure, Ascending(closure))

\* the classification with dimension d added at weight w
WithDimension(d, w) ==
  [x \in DOMAIN classification \cup {d} |-> IF x = d THEN w ELSE classification[x]]

\* (a) adding a dimension that no node carries, at any weight, leaves the
\* outcome unchanged
UnknownDimensionIgnored ==
  \A w \in 0..MaxWeight : SelectOf(WithDimension(UnknownDim, w)) = last_return

\* (b) mapping an omitted dimension to weight 0.0 leaves the outcome unchanged
OmittedAsZero ==
  \A d \in Dims \ DOMAIN classification : SelectOf(WithDimension(d, 0)) = last_return

(* C16 as stated: for every classification and every dimension_threshold,   *)
(* (a) a dimension name no node carries does not change the outcome of      *)
(* select, and (b) omitting a known dimension gives the same outcome as     *)
(* mapping it to 0.0.                                                       *)
C16_Original ==
  last_return.status # "none" => (UnknownDimensionIgnored /\ OmittedAsZero)

(* C16, amended: (a) holds for every classification and every               *)
(* dimension_threshold; (b) holds for every dimension_threshold greater     *)
(* than 0.0.                                                                *)
C16_OmittedAndUnknown ==
  last_return.status # "none" =>
    /\ UnknownDimensionIgnored
    /\ config.dimension_threshold > 0 => OmittedAsZero

\* a list returned with a positive threshold for a classification that
\* omits a dimension carried by a node left out of the list
C16_Witness ==
  /\ ListReturned
  /\ config.dimension_threshold > 0
  /\ DOMAIN classification # {}
  /\ \E d \in Dims \ DOMAIN classification :
       \E n \in DOMAIN graph :
         d \in graph[n].dimensions /\ n \notin Range(last_return.value)

\* no dimension of the classification has a weight that reaches the threshold
BelowThreshold ==
  \A d \in DOMAIN classification : classification[d] < config.dimension_threshold

\* the mandatory nodes of the ontology
MandatoryNodes == {n \in DOMAIN graph : graph[n].mandatory}

(* C17 as stated: when no dimension of the classification reaches           *)
(* dimension_threshold, the returned list holds exactly the mandatory       *)
(* nodes and no other node.                                                 *)
C17_Original ==
  (ListReturned /\ BelowThreshold) => Range(last_return.value) = MandatoryNodes

(* C17, amended: when no dimension of the classification reaches            *)
(* dimension_threshold and the closure size does not exceed max_tasks, the  *)
(* returned list holds exactly the mandatory nodes and the ids they depend  *)
(* on, directly or transitively, and no other id.                           *)
C17_BelowThreshold ==
  (ListReturned /\ BelowThreshold /\ Untruncated) =>
    Range(last_return.value) = ReachableWithin(AllIds, MandatoryNodes)

\* a classification with weights, all below the threshold: the list holds
\* a mandatory node and a non-mandatory node it depends on, and leaves out
\* a node that carries a listed dimension
C17_Witness ==
  /\ ListReturned
  /\ BelowThreshold
  /\ Untruncated
  /\ DOMAIN classification # {}
  /\ \E m \in MandatoryNodes :
       \E d \in Range(last_return.value) \cap DOMAIN graph :
         DependsOn(m, d) /\ ~graph[d].mandatory
  /\ \E n \in DOMAIN graph \ Range(last_return.value) :
       graph[n].dimensions \cap DOMAIN classification # {}

\* what the call returns when it is the only call on the engine
Alone(call) ==
  IF call.op = "get_required_tasks" THEN SelectOf(call.dimensions)
  ELSE IF call.op = "explain_selection"
       THEN explain_selection(SelectOf(call.dimensions), call.dimensions)
       ELSE calculate_coverage(call.executed, call.required)

(* C18: concurrent calls are safe without locking.  When several threads    *)
(* run get_required_tasks, explain_selection or calculate_coverage at the   *)
(* same time on one engine, under every interleaving of their steps each    *)
(* call returns exactly what it returns when run alone.                     *)
C18_ConcurrentCalls ==
  \A t \in DOMAIN thread_pc :
    thread_pc[t] = "done" => thread_result[t] = Alone(thread_calls[t])

\* a call has returned its list while a call of another thread, made with
\* another classification, stands between its closure and its sort with a
\* different closure
C18_Witness ==
  \E t, u \in DOMAIN thread_pc :
    /\ thread_pc[t] = "done"
    /\ thread_calls[t].op = "get_required_tasks"
    /\ thread_result[t].status = "list"
    /\ thread_pc[u] = "sort"
    /\ thread_calls[u].dimensions # thread_calls[t].dimensions
    /\ frames[Frame(u)].all_required # Range(thread_result[t].value)

\* every result the engine has returned is the one a fresh engine returns
\* for the same arguments
HistoryFree ==
  /\ last_return.status # "none" => last_return = SelectOf(classification)
  /\ previous_return.status # "none" => previous_return = SelectOf(classification)
  /\ explanations.status # "none" =>
       explanations = explain_selection(SelectOf(classification), classification)
  /\ plan.status # "none" => plan = VerificationPlan(SelectOf(classification))
  /\ Scored => coverage = calculate_coverage(coverage_executed, coverage_required)

(* C19: no side effects.  No step of a get_required_tasks,                  *)
(* explain_selection, process_claim or calculate_coverage call, whether it  *)
(* returns, truncates or raises the cycle error, changes the ontology or    *)
(* the engine's configuration, and every result is the one a fresh engine   *)
(* returns: nothing is carried from one call to the next.                   *)
C19_NoSideEffects ==
  /\ [][graph' = graph /\ config' = config]_vars
  /\ []HistoryFree

\* calls of every kind were made on an ontology with a dependency id that
\* names no node; the selections were truncated
C19_Witness ==
  /\ previous_return.status = "list"
  /\ ListReturned
  /\ ~Untruncated
  /\ UnknownId \in all_required
  /\ explanations.status = "map"
  /\ Planned
  /\ Scored
  /\ pc = "idle"

\* the first element of the plan's required_task_ids is the task id
FirstIs(task_id) ==
  Len(plan.required_task_ids) >= 1 /\ plan.required_task_ids[1] = task_id

\* the documentation weight reaches the threshold
DocumentationActive == classification["documentation"] >= config.dimension_threshold

(* C20 as stated: over the shipped ontology and the default configuration,  *)
(* for every classification, the first element of the plan's                *)
(* required_task_ids is baseline_correctness_check.                         *)
C20_Original == Planned => FirstIs(baseline_correctness_check)

(* C20, amended: over the shipped ontology and the default configuration,   *)
(* the first element of the plan's required_task_ids is                     *)
(* baseline_correctness_check, except when documentation reaches the        *)
(* threshold and the closure holds at most max_tasks tasks: then it is      *)
(* api_documentation_completeness.                                          *)
C20_MandatoryRootFirst ==
  Planned =>
    IF DocumentationActive /\ Untruncated
    THEN FirstIs(api_documentation_completeness)
    ELSE FirstIs(baseline_correctness_check)

\* documentation inactive and build_reproducibility_test, the other task
\* without dependencies, selected: baseline_correctness_check is first
C20_Witness ==
  /\ Planned
  /\ ~DocumentationActive
  /\ \E i \in 2..Len(plan.required_task_ids) :
       /\ plan.required_task_ids[i] \in DOMAIN graph
       /\ graph[plan.required_task_ids[i]].dependencies = <<>>
  /\ FirstIs(baseline_correctness_check)

\* the latest request was GET /tasks by a registered wallet
Listed == response.op = "get_available_tasks" /\ response.status = 200

\* the claim the task belongs to was submitted by the wallet
AuthoredBy(id, wallet) == db.claims[db.tasks[id].claim_id].author = wallet

\* the tasks the listing is said to hold for the wallet
AvailableTo(wallet) ==
  {id \in DOMAIN db.tasks :
     /\ Len(db.tasks[id].assigned_validators) < db.tasks[id].min_validators
     /\ db.tasks[id].required_skills \cap db.users[wallet].skills # {}
     /\ wallet \notin Range(db.tasks[id].assigned_validators)
     /\ ~AuthoredBy(id, wallet)}

(* C21: available-task listing.  In every state of the task store the      *)
(* tasks get_available_tasks returns to a validator are exactly the tasks   *)
(* that have fewer than min_validators validators assigned, share a         *)
(* required skill with the validator, do not have this validator assigned   *)
(* and do not belong to a claim this validator submitted.                   *)
C21_Original == Listed => response.body = AvailableTo(response.wallet)

\* the ids of S not yet placed whose dependencies inside S are all placed
Ready(S, placed) ==
  {n \in S \ placed : \A d \in S : DependsOn(n, d) => d \in placed}

RECURSIVE SmallestFirst(_, _)
\* the order obtained by placing, again and again, the smallest ready id
SmallestFirst(S, placed) ==
  LET ready == Ready(S, Range(placed))
  IN IF ready = {} THEN placed
     ELSE SmallestFirst(S, Append(placed, CHOOSE n \in ready : \A m \in ready : n <= m))

\* s lists every id of S once, each after the ids of S it depends on
IsTopologicalOrder(s, S) ==
  /\ Len(s) = Cardinality(S)
  /\ Range(s) = S
  /\ \A i, j \in 1..Len(s) : DependsOn(s[j], s[i]) => i < j

\* a comes before b, or is b, in the lexicographic order of lists of ids
LexLeq(a, b) ==
  \/ a = b
  \/ \E k \in 1..Min(Len(a), Len(b)) :
       a[k] < b[k] /\ \A j \in 1..(k - 1) : a[j] = b[j]

(* C22: canonical order.  Whenever the subgraph induced on the closure is  *)
(* acyclic and the closure fits max_tasks, the list get_required_tasks      *)
(* returns is the one built by placing, again and again, the smallest id    *)
(* among the unplaced ids whose dependencies in the closure are all placed; *)
(* it is a topological order of the closure and no topological order of     *)
(* the closure is lexicographically smaller; the iteration order of the     *)
(* seed set and of the closure does not matter.                             *)
C22_CanonicalOrder ==
  (ListReturned /\ Untruncated /\ OnCycle(all_required) = {}) =>
    /\ last_return.value = SmallestFirst(all_required, <<>>)
    /\ IsTopologicalOrder(last_return.value, all_required)
    /\ \A p \in Perms(all_required) :
         IsTopologicalOrder(p, all_required) => LexLeq(last_return.value, p)

\* an untruncated list of an acyclic closure that has several topological
\* orders, with an id placed before a smaller id that depends on it
C22_Witness ==
  /\ ListReturned
  /\ Untruncated
  /\ OnCycle(all_required) = {}
  /\ \E p \in Perms(all_required) :
       IsTopologicalOrder(p, all_required) /\ p # last_return.value
  /\ \E i, j \in 1..Len(last_return.value) :
       i < j /\ last_return.value[i] > last_return.value[j]

\* the id is a mandatory node of the ontology
IsMandatory(id) == id \in DOMAIN graph /\ graph[id].mandatory

\* the risk weight step 5 ranks an id by: none for an id without a node
RiskOf(id) == IF id \in DOMAIN graph THEN graph[id].risk_weight ELSE 0

\* the number of dependency entries step 5 ranks an id by
DependencyCount(id) == IF id \in DOMAIN graph THEN Len(graph[id].dependencies) ELSE 0

\* where the id stands in the list s
IndexIn(s, id) == CHOOSE i \in 1..Len(s) : s[i] = id

\* x stands before y once the topological order topo is prioritized:
\* mandatory nodes first, in their topological order, then the others by
\* descending risk weight, ascending number of dependencies, and
\* topological order
StandsBefore(topo, x, y) ==
  IF IsMandatory(x) # IsMandatory(y) THEN IsMandatory(x)
  ELSE IF IsMandatory(x) THEN IndexIn(topo, x) < IndexIn(topo, y)
  ELSE \/ RiskOf(x) > RiskOf(y)
       \/ RiskOf(x) = RiskOf(y) /\ DependencyCount(x) < DependencyCount(y)
       \/ /\ RiskOf(x) = RiskOf(y)
          /\ DependencyCount(x) = DependencyCount(y)
          /\ IndexIn(topo, x) < IndexIn(topo, y)

\* the topological order topo, prioritized
Prioritized(topo) ==
  [k \in 1..Len(topo) |->
     CHOOSE x \in Range(topo) :
       Cardinality({y \in Range(topo) : StandsBefore(topo, y, x)}) = k - 1]

\* the latest call returned a list cut to the cap
Truncated == ListReturned /\ Cardinality(all_required) > config.max_tasks

(* C23 as stated: when the ordered closure is longer than max_tasks, the    *)
(* result is the first max_tasks elements of the mandatory nodes in their   *)
(* topological order followed by the other nodes sorted by descending       *)
(* risk_weight, then ascending number of dependencies, ties in topological  *)
(* order.                                                                   *)
C23_Original ==
  Truncated =>
    last_return.value =
      SubSeq(Prioritized(SmallestFirst(all_required, <<>>)), 1, config.max_tasks)

(* C23, amended: when the ordered closure is longer than a max_tasks that   *)
(* is not negative, the result is the first max_tasks elements of the       *)
(* mandatory nodes in their topological order followed by the other nodes   *)
(* sorted by descending risk_weight, then ascending number of dependencies, *)
(* ties in topological order; with max_tasks = 2 and one mandatory node in  *)
(* a closure of five or more, the result has length 2 and starts with the   *)
(* mandatory node.                                                          *)
C23_TruncationRule ==
  (Truncated /\ config.max_tasks >= 0) =>
    /\ last_return.value =
         SubSeq(Prioritized(SmallestFirst(all_required, <<>>)), 1, config.max_tasks)
    /\ (/\ config.max_tasks = 2
        /\ Cardinality(all_required) >= 5
        /\ Cardinality(get_mandatory_tasks) = 1)
         => /\ Len(last_return.value) = 2
            /\ IsMandatory(last_return.value[1])

\* the scenario: max_tasks = 2, a closure of five or more with one
\* mandatory node, cut to the mandatory node and a node of the highest risk
\* weight that stands behind a node of lower weight in the topological order
C23_Witness ==
  /\ Truncated
  /\ config.max_tasks = 2
  /\ Cardinality(all_required) >= 5
  /\ Cardinality(get_mandatory_tasks) = 1
  /\ Len(last_return.value) = 2
  /\ IsMandatory(last_return.value[1])
  /\ LET topo == SmallestFirst(all_required, <<>>)
     IN \E y \in all_required :
          /\ ~IsMandatory(y)
          /\ IndexIn(topo, y) < IndexIn(topo, last_return.value[2])
          /\ RiskOf(y) < RiskOf(last_return.value[2])

\* the mandatory nodes and the nodes a dimension activates
Seeds == get_mandatory_tasks \cup {n \in DOMAIN graph : ActivatedByDimension(n)}

\* the seeds and every node of the ontology they depend on, directly or
\* through other nodes
SeedClosure == ReachableWithin(DOMAIN graph, Seeds)

\* no id stands twice in the list
DuplicateFree(s) == \A i, j \in 1..Len(s) : s[i] = s[j] => i = j

(* C24: exact selection set.  When the closure fits max_tasks and is        *)
(* acyclic, the list get_required_tasks returns holds no id twice and its   *)
(* ids are exactly the nodes of the transitive dependency closure of the    *)
(* mandatory and the activated nodes; no other id is returned.              *)
C24_Original ==
  (ListReturned /\ Untruncated /\ OnCycle(all_required) = {}) =>
    /\ DuplicateFree(last_return.value)
    /\ Range(last_return.value) = SeedClosure

(* C25: no false cycle reports.  Whenever get_required_tasks raises the     *)
(* structural error, the unplaced remainder it names holds at least one     *)
(* dependency cycle, so the subgraph induced on the closure has a cycle.    *)
C25_Original ==
  last_return.status = "error" =>
    /\ OnCycle(last_return.remaining) # {}
    /\ OnCycle(all_required) # {}

\* the place of a reason kind in the fixed order of the reasons
KindRank(kind) ==
  IF kind = "mandatory" THEN 1
  ELSE IF kind = "dimensions" THEN 2
  ELSE IF kind = "dependency" THEN 3
  ELSE 4

\* the dimensions of node id that the classification holds at or above the
\* threshold
ActiveDimensionsOf(id) ==
  {d \in graph[id].dimensions :
     d \in DOMAIN classification /\ classification[d] >= config.dimension_threshold}

\* the places of the explained ids whose dependency list holds id
DependentsOf(id) ==
  {j \in 1..Len(ExplainedKeys) : DependsOn(ExplainedKeys[j], id)}

\* the reasons of one entry are as the rule states them
ReasonsAsStated(id, reasons) ==
  /\ \A k, l \in 1..Len(reasons) :
       k < l => KindRank(reasons[k].kind) < KindRank(reasons[l].kind)
  /\ (\E k \in 1..Len(reasons) : reasons[k].kind = "mandatory") <=> graph[id].mandatory
  /\ (\E k \in 1..Len(reasons) : reasons[k].kind = "dimensions")
       <=> ActiveDimensionsOf(id) # {}
  /\ \A k \in 1..Len(reasons) :
       reasons[k].kind = "dimensions" => reasons[k].dims = ActiveDimensionsOf(id)
  /\ (\E k \in 1..Len(reasons) : reasons[k].kind = "dependency")
       <=> DependentsOf(id) # {}
  /\ \A k \in 1..Len(reasons) :
       reasons[k].kind = "dependency" =>
         \E j \in DependentsOf(id) :
           /\ reasons[k].of = ExplainedKeys[j]
           /\ \A m \in DependentsOf(id) : j <= m
  /\ \A k \in 1..Len(reasons) : reasons[k].kind = "unknown" => Len(reasons) = 1

(* C26: explanation reasons.  Every entry of explain_selection's dict lists *)
(* its reasons in the fixed order mandatory, activated by dimensions,       *)
(* required as dependency: mandatory iff the node is mandatory, the         *)
(* dimensions reason iff some dimension of the node is active and then      *)
(* carrying exactly those, and at most one dependency reason, naming the    *)
(* first id of the selection order whose dependency list holds the id.      *)
C26_ReasonOrder ==
  explanations.status = "map" =>
    \A i \in 1..Len(explanations.items) :
      ReasonsAsStated(explanations.items[i].task_id, explanations.items[i].reasons)

\* an entry that two selected ids depend on, with a reason standing before
\* its dependency reason
C26_Witness ==
  /\ explanations.status = "map"
  /\ \E i \in 1..Len(explanations.items) :
       /\ Len(explanations.items[i].reasons) >= 2
       /\ Cardinality(DependentsOf(explanations.items[i].task_id)) >= 2

\* the stepped call has ended, with a list or with the structural error
CallEnded ==
  \/ call_frame.pc = "returned" /\ call_frame.result.status = "list"
  \/ call_frame.pc = "raised" /\ call_frame.result.status = "error"

(* C27: get_required_tasks always terminates.  Over every ontology, with    *)
(* dependency cycles, self-dependencies and dangling dependency ids, and    *)
(* every classification, a call that runs its loops pass by pass leaves     *)
(* the closure expansion and the Kahn reduction and ends with a returned    *)
(* list or with the structural error.                                       *)
C27_Terminates == <>CallEnded

\* a call over a closure with a cycle and a dangling id has ended
C27_Witness ==
  /\ CallEnded
  /\ OnCycle(call_frame.all_required) # {}
  /\ call_frame.all_required \ DOMAIN graph # {}

(* C28: the pipeline's reported coverage is constant.  Every plan           *)
(* process_claim returns carries the coverage 1.0, whatever was selected:   *)
(* the scorer is handed the required ids as the executed ids.               *)
C28_FullCoverage ==
  Planned =>
    /\ plan.coverage.status = "ratio"
    /\ plan.coverage.den > 0
    /\ plan.coverage.num = plan.coverage.den

\* a plan whose coverage is the quotient of two weight sums above 1.0
C28_Witness ==
  /\ Planned
  /\ plan.required_task_ids # <<>>
  /\ plan.coverage.den > UnknownWeight

\* the wallets that handed in a result for the task
Submitters(task) == {task.results[i].validator : i \in 1..Len(task.results)}

ConsensusAsStated(task) ==
  /\ task.status \in {"open", "in_progress", "completed"}
  /\ task.status = "open" <=> task.assigned_validators = <<>>
  /\ task.status = "completed" <=> Len(task.results) >= task.min_validators
  /\ task.status = "completed" =>
       /\ task.consensus = check_consensus(task)
       /\ task.consensus \in {"pass", "fail"}
       /\ task.consensus = "pass" <=> 2 * Passes(task.results) > Len(task.results)
  /\ task.status # "completed" =>
       /\ check_consensus(task) = "none"
       /\ task.consensus = "none"

\* one request moves the status of the task along open, in_progress,
\* completed, by one place at most
MovesForward(id) ==
  LET before == db.tasks[id]
      after == db'.tasks[id]
  IN \/ after.status = before.status
     \/ /\ before.status = "open"
        /\ after.status = "in_progress"
        /\ before.assigned_validators = <<>>
        /\ Len(after.assigned_validators) = 1
     \/ /\ before.status = "in_progress"
        /\ after.status = "completed"
        /\ Len(after.results) = Len(before.results) + 1

(* C30: task lifecycle and consensus.  A task created by create_claim       *)
(* starts open and moves only from open to in_progress, on its first        *)
(* assignment, and from in_progress to completed; it is completed exactly   *)
(* when its results have reached min_validators; a completed task stores    *)
(* the consensus check_consensus returns, "pass" if and only if strictly    *)
(* more than half of the results passed and "fail" otherwise, and           *)
(* check_consensus returns nothing before.                                  *)
C30_Lifecycle ==
  /\ [](\A id \in CreatedTasks : ConsensusAsStated(db.tasks[id]))
  /\ [][/\ \A id \in CreatedTasks : id \in DOMAIN db'.tasks /\ MovesForward(id)
        /\ \A id \in DOMAIN db'.tasks \ DOMAIN db.tasks :
             db'.tasks[id].status = "open"]_vars

\* a task is completed on a tie, with the consensus "fail" in the answer
C30_Witness ==
  /\ response.op = "submit_result"
  /\ response.body = {"fail"}
  /\ \E id \in CreatedTasks :
       /\ db.tasks[id].status = "completed"
       /\ db.tasks[id].consensus = "fail"
       /\ 2 * Passes(db.tasks[id].results) = Len(db.tasks[id].results)

====
